---- MODULE Spec2Model ----
(***************************************************************************)
(* A state-machine model of the store of src/src/store.js together with    *)
(* its module tree (src/src/module/module.js, module-collection.js).       *)
(*                                                                         *)
(* The Store object's private fields are the variables.  Every public      *)
(* operation is one action; what an operation does is computed by          *)
(* operators over a record `w` of all the fields (the "world"), so that an *)
(* operation that calls back into the store (an action handler that        *)
(* commits, a subscriber that unsubscribes) is still one step.             *)
(*                                                                         *)
(* JavaScript functions supplied by the user (mutation, action and getter  *)
(* bodies, subscriber callbacks) are modelled by tags, each with the       *)
(* behaviour written next to it.                                           *)
(***************************************************************************)
EXTENDS Naturals, Sequences, FiniteSets, TLC

VARIABLES
  committing,           \* store._committing
  mutations,            \* store._mutations       : type -> sequence of wrapped handlers
  actions,              \* store._actions         : type -> sequence of wrapped handlers
  wrappedGetters,       \* store._wrappedGetters  : type -> wrapped getter
  getters,              \* store.getters (the computed properties of store._vm)
  modules,              \* store._modules         : path -> Module
  modulesNamespaceMap,  \* store._modulesNamespaceMap : namespace -> path of the module
  subscribers,          \* store._subscribers
  actionSubscribers,    \* store._actionSubscribers
  state,                \* store._vm._data.$$state : path -> the `count` of the slice there
  closure,              \* the unsubscribe closure under observation (one that a caller kept)
  promise,              \* the result of a dispatch under observation (the last one returned)
  log,                  \* what the last operation did, in order
  lastOp                \* the last operation and its arguments

vars == <<committing, mutations, actions, wrappedGetters, getters, modules,
          modulesNamespaceMap, subscribers, actionSubscribers, state,
          closure, promise, log, lastOp>>

(***************************************************************************)
(* Bounds of the model.                                                    *)
(***************************************************************************)
MaxCount == 10

MaxHandlers == 3

Payloads == {1, 5}

(***************************************************************************)
(* User code.                                                              *)
(*   mutation bodies  "add"  : state.count += payload                      *)
(*                    "add2" : state.count += 2 * payload                  *)
(*                    "commitInner": state.count += payload, then          *)
(*                                   store.commit('increment', payload)    *)
(*                    "throw": throws before it writes anything            *)
(*   getter bodies    "double": state => state.count * 2                   *)
(*                    "triple": state => state.count * 3                   *)
(*   action bodies    "pending"      : returns a promise settled later     *)
(*                    "commitPending": context.commit('increment', payload)*)
(*                                     then returns a promise settled later*)
(*                    "commitSync"   : context.commit('increment', payload)*)
(*                                     and returns undefined               *)
(*                    "write"        : writes context.state.count itself   *)
(*                    "commitRoot"   : context.commit('increment', payload,*)
(*                                     {root: true})                       *)
(*                    "commitMissing": context.commit('missing', payload)  *)
(*                    "dispatchLocal": context.dispatch('leaf', payload)   *)
(*                    "dispatchRoot" : context.dispatch('act', payload,    *)
(*                                     {root: true})                       *)
(*                    "dispatchMissing": context.dispatch('missing',       *)
(*                                     payload)                            *)
(*                    all but the first three return undefined             *)
(*   subscribers      "f", "g" : only observe                              *)
(*                    "once"   : observes, then calls its own unsubscribe  *)
(*                    "writer" : observes, then writes state.count itself  *)
(*   a direct write is  state.count = state.count === 0 ? 1 : 0            *)
(***************************************************************************)
Fns == {"f", "g", "once"}

Entry(k, b) == [key |-> k, body |-> b]
ActionEntry(k, b, r) == [key |-> k, body |-> b, root |-> r]

ModuleA ==
  [namespaced |-> TRUE, state |-> 0,
   mutations |-> <<Entry("increment", "add")>>,
   actions |-> <<ActionEntry("act", "commitSync", FALSE)>>,
   getters |-> <<Entry("total", "double")>>]

ModuleB ==
  [namespaced |-> FALSE, state |-> 0,
   mutations |-> <<Entry("increment", "add")>>,
   actions |-> <<ActionEntry("act", "commitPending", FALSE)>>]

RootOptions ==
  [namespaced |-> FALSE, state |-> 0,
   mutations |-> <<Entry("increment", "add")>>,
   actions |-> <<ActionEntry("act", "pending", FALSE)>>,
   getters |-> <<Entry("total", "double")>>,
   modules |-> <<[key |-> "a", def |-> ModuleA], [key |-> "b", def |-> ModuleB]>>]

\* definitions given to hotUpdate: module a with a new body for `increment`
HotA(body, ns) == [namespaced |-> ns, mutations |-> <<Entry("increment", body)>>]

\* a module the tree does not hold
ModuleC == [namespaced |-> TRUE, state |-> 0, mutations |-> <<Entry("increment", "add")>>]

\* definitions given to registerModule
ModuleD ==
  [namespaced |-> TRUE, state |-> 0,
   mutations |-> <<Entry("increment", "add")>>,
   getters |-> <<Entry("total", "double")>>]

ModuleN ==
  [namespaced |-> TRUE, state |-> 0,
   mutations |-> <<Entry("increment", "add"), Entry("nest", "commitInner"),
                   Entry("boom", "throw")>>,
   actions |-> <<ActionEntry("act", "pending", TRUE), ActionEntry("go", "commitSync", FALSE),
                 ActionEntry("poke", "write", FALSE)>>,
   getters |-> <<Entry("total", "triple")>>,
   modules |-> <<[key |-> "d", def |-> ModuleD]>>]

\* a module whose actions use every form of the local commit and dispatch
ModuleL(ns) ==
  [namespaced |-> ns, state |-> 0,
   mutations |-> <<Entry("increment", "add")>>,
   actions |-> <<ActionEntry("commitLocal", "commitSync", FALSE),
                 ActionEntry("commitRoot", "commitRoot", FALSE),
                 ActionEntry("commitMissing", "commitMissing", FALSE),
                 ActionEntry("dispatchLocal", "dispatchLocal", FALSE),
                 ActionEntry("dispatchRoot", "dispatchRoot", FALSE),
                 ActionEntry("dispatchMissing", "dispatchMissing", FALSE),
                 ActionEntry("leaf", "pending", FALSE)>>]

ModuleP ==
  [namespaced |-> FALSE, state |-> 0,
   mutations |-> <<Entry("increment", "add2")>>,
   getters |-> <<Entry("total", "triple")>>]

HotOptions ==
  { [namespaced |-> FALSE, modules |-> <<[key |-> "a", def |-> HotA("add2", TRUE)]>>],
    [namespaced |-> FALSE, modules |-> <<[key |-> "a", def |-> HotA("add", TRUE)]>>],
    [namespaced |-> FALSE, modules |-> <<[key |-> "a", def |-> HotA("add2", FALSE)]>>],
    [namespaced |-> FALSE, modules |-> <<[key |-> "c", def |-> ModuleC],
                                         [key |-> "a", def |-> HotA("add2", TRUE)]>>],
    [namespaced |-> FALSE, modules |-> <<[key |-> "a", def |-> HotA("add2", TRUE)],
                                         [key |-> "c", def |-> ModuleC]>>] }

(***************************************************************************)
(* Sequence helpers (Array.prototype.indexOf, splice(i, 1), slice(0, -1)). *)
(***************************************************************************)
Range(s) == {s[i] : i \in DOMAIN s}

indexOf(s, x) ==
  IF x \in Range(s) THEN CHOOSE i \in DOMAIN s : s[i] = x /\ \A j \in 1..(i - 1) : s[j] # x
  ELSE 0

splice(s, i) == [j \in 1..(Len(s) - 1) |-> IF j < i THEN s[j] ELSE s[j + 1]]

Front(s) == SubSeq(s, 1, Len(s) - 1)

Last(s) == s[Len(s)]

IsPrefix(p, q) == Len(p) <= Len(q) /\ SubSeq(q, 1, Len(p)) = p

(***************************************************************************)
(* module.js                                                               *)
(***************************************************************************)
Table(raw, field) == IF field \in DOMAIN raw THEN raw[field] ELSE <<>>

\* constructor: the raw module without its nested modules, the initial state, no child
NewModule(rawModule, runtime) ==
  [runtime |-> runtime,
   children |-> <<>>,
   rawModule |-> [f \in DOMAIN rawModule \ {"modules"} |-> rawModule[f]],
   state |-> rawModule.state]

Namespaced(module) == module.rawModule.namespaced

\* _children[key] = module: a new key goes last, an existing key keeps its place
addChild(children, key) == IF key \in Range(children) THEN children ELSE Append(children, key)

removeChild(children, key) ==
  IF key \in Range(children) THEN splice(children, indexOf(children, key)) ELSE children

(***************************************************************************)
(* module-collection.js.  The tree is a function from the paths that hold  *)
(* a module to that module; `children` keeps the order of the keys.        *)
(***************************************************************************)
HasModule(tree, path) == path \in DOMAIN tree

\* the paths strictly below `path`
Below(tree, path) == {q \in DOMAIN tree : IsPrefix(path, q) /\ q # path}

RECURSIVE getNamespaceFrom(_, _, _)
getNamespaceFrom(tree, path, i) ==
  IF i > Len(path) THEN ""
  ELSE (IF Namespaced(tree[SubSeq(path, 1, i)]) THEN path[i] \o "/" ELSE "")
       \o getNamespaceFrom(tree, path, i + 1)

getNamespace(tree, path) == getNamespaceFrom(tree, path, 1)

RECURSIVE register(_, _, _, _)
RECURSIVE registerChildren(_, _, _, _, _)

register(tree, path, rawModule, runtime) ==
  LET newModule == NewModule(rawModule, runtime)
      kept == DOMAIN tree \ ({path} \cup Below(tree, path))
      t1 == IF path = <<>>
            THEN [p \in {<<>>} |-> newModule]
            ELSE [p \in kept \cup {path} |->
                    IF p = path THEN newModule
                    ELSE IF p = Front(path)
                         THEN [tree[p] EXCEPT !.children = addChild(@, Last(path))]
                         ELSE tree[p]]
  IN registerChildren(t1, path, Table(rawModule, "modules"), runtime, 1)

registerChildren(tree, path, rawChildren, runtime, i) ==
  IF i > Len(rawChildren) THEN tree
  ELSE registerChildren(
         register(tree, Append(path, rawChildren[i].key), rawChildren[i].def, runtime),
         path, rawChildren, runtime, i + 1)

\* new ModuleCollection(options)
NewModuleCollection(rawRootModule) == register(<<>>, <<>>, rawRootModule, FALSE)

(***************************************************************************)
(* The world: the fields of the Store that an operation reads and writes,  *)
(* the log of what it does, whether it has thrown, and what it returned.   *)
(***************************************************************************)
EmptyMap == [x \in {} |-> x]

Put(m, k, v) == [x \in DOMAIN m \cup {k} |-> IF x = k THEN v ELSE m[x]]

Event(kind, w, fn, path, type, payload) ==
  [ev |-> kind, fn |-> fn, path |-> path, type |-> type, payload |-> payload,
   committing |-> w.committing, state |-> w.state]

Emit(w, e) == [w EXCEPT !.log = Append(@, e)]

\* console.error / console.warn of a non-production build
Diagnostic(w, kind, type) == Emit(w, Event(kind, w, "", <<>>, type, 0))

Throw(w) == [w EXCEPT !.thrown = TRUE]

\* the second part of the constructor's options: new Store({..., strict: true})
StoreOptions == [strict |-> TRUE]

\* enableStrictMode: the deep, synchronous watcher of the state runs at every write
\* and asserts store._committing; the failed assertion is reported, the write stays
strictWatcher(w) ==
  IF StoreOptions.strict /\ ~w.committing
  THEN Diagnostic(w, "error: do not mutate vuex store state outside mutation handlers", "")
  ELSE w

\* a write to the state has just been made by `who` at `path`
stateWrite(w, who, path) == strictWatcher(Emit(w, Event("write", w, who, path, "", 0)))

\* user code that writes the state itself: state.count = state.count === 0 ? 1 : 0
directWrite(w, who, path) ==
  IF path \notin DOMAIN w.state THEN Throw(w)
  ELSE stateWrite([w EXCEPT !.state[path] = IF @ = 0 THEN 1 ELSE 0], who, path)

(***************************************************************************)
(* store.js: _withCommit(fn) is  Leave(fn(Enter(w)), w.committing); an     *)
(* exception in fn leaves before the flag is restored.                     *)
(***************************************************************************)
withCommitEnter(w) == [w EXCEPT !.committing = TRUE]

\* (mutant) the flag is set to false instead of to its value before the call
withCommitLeaveFalse(w, prior) ==
  IF w.thrown THEN w ELSE [w EXCEPT !.committing = FALSE]

withCommitLeave(w, prior) ==
  IF w.thrown THEN w ELSE [w EXCEPT !.committing = prior]

\* getNestedState(state, path): the slice at path; reading through a missing
\* slice throws, a missing last segment gives undefined
HasState(w, path) == path \in DOMAIN w.state

getNestedStateThrows(w, path) == path # <<>> /\ Front(path) \notin DOMAIN w.state

\* (mutant) the state of the module is grafted outside _withCommit
setModuleStateUnguarded(w, path, moduleState) ==
  IF getNestedStateThrows(w, path) THEN Throw(w)
  ELSE LET kept == {q \in DOMAIN w.state : ~IsPrefix(path, q)}
           w2 == [w EXCEPT !.state = [q \in kept \cup {path} |->
                                        IF q = path THEN moduleState ELSE w.state[q]]]
       IN stateWrite(w2, "installModule", path)

\* Vue.set(parentState, moduleName, module.state) inside _withCommit
setModuleState(w, path, moduleState) ==
  IF getNestedStateThrows(w, path) THEN Throw(w)
  ELSE LET w1 == withCommitEnter(w)
           kept == {q \in DOMAIN w.state : ~IsPrefix(path, q)}
           w2 == [w1 EXCEPT !.state = [q \in kept \cup {path} |->
                                         IF q = path THEN moduleState ELSE w.state[q]]]
       IN withCommitLeave(stateWrite(w2, "installModule", path), w.committing)

makeLocalContext(namespace, path) == [namespace |-> namespace, path |-> path]

registerMutation(w, type, handler, local) ==
  LET entry == IF type \in DOMAIN w.mutations THEN w.mutations[type] ELSE <<>>
  IN [w EXCEPT !.mutations = Put(@, type, Append(entry, [body |-> handler, local |-> local]))]

registerAction(w, type, handler, local) ==
  LET entry == IF type \in DOMAIN w.actions THEN w.actions[type] ELSE <<>>
  IN [w EXCEPT !.actions = Put(@, type, Append(entry, [body |-> handler, local |-> local]))]

registerGetter(w, type, rawGetter, local) ==
  IF type \in DOMAIN w.wrappedGetters
  THEN Diagnostic(w, "error: duplicate getter key", type)
  ELSE [w EXCEPT !.wrappedGetters = Put(@, type, [body |-> rawGetter, local |-> local])]

RECURSIVE forEachMutation(_, _, _, _, _)
forEachMutation(w, table, namespace, local, i) ==
  IF i > Len(table) THEN w
  ELSE forEachMutation(
         registerMutation(w, namespace \o table[i].key, table[i].body, local),
         table, namespace, local, i + 1)

\* (mutant) the root option of an action is not looked at
RECURSIVE forEachActionNamespaced(_, _, _, _, _)
forEachActionNamespaced(w, table, namespace, local, i) ==
  IF i > Len(table) THEN w
  ELSE forEachActionNamespaced(
         registerAction(w, namespace \o table[i].key, table[i].body, local),
         table, namespace, local, i + 1)

RECURSIVE forEachAction(_, _, _, _, _)
forEachAction(w, table, namespace, local, i) ==
  IF i > Len(table) THEN w
  ELSE forEachAction(
         registerAction(w, IF table[i].root THEN table[i].key ELSE namespace \o table[i].key,
                        table[i].body, local),
         table, namespace, local, i + 1)

\* (mutant) the getters are registered under their bare key
RECURSIVE forEachGetterBareKey(_, _, _, _, _)
forEachGetterBareKey(w, table, namespace, local, i) ==
  IF i > Len(table) THEN w
  ELSE forEachGetterBareKey(
         registerGetter(w, table[i].key, table[i].body, local),
         table, namespace, local, i + 1)

RECURSIVE forEachGetter(_, _, _, _, _)
forEachGetter(w, table, namespace, local, i) ==
  IF i > Len(table) THEN w
  ELSE forEachGetter(
         registerGetter(w, namespace \o table[i].key, table[i].body, local),
         table, namespace, local, i + 1)

RECURSIVE installModule(_, _, _)
RECURSIVE forEachChild(_, _, _, _, _)

installModule(w, path, hot) ==
  LET module == w.modules[path]
      namespace == getNamespace(w.modules, path)
      w1 == IF Namespaced(module)
            THEN [w EXCEPT !.modulesNamespaceMap = Put(@, namespace, path)]
            ELSE w
      w2 == IF path # <<>> /\ ~hot THEN setModuleState(w1, path, module.state) ELSE w1
      local == makeLocalContext(namespace, path)
      w3 == forEachMutation(w2, Table(module.rawModule, "mutations"), namespace, local, 1)
      w4 == forEachAction(w3, Table(module.rawModule, "actions"), namespace, local, 1)
      w5 == forEachGetter(w4, Table(module.rawModule, "getters"), namespace, local, 1)
  IN IF w2.thrown THEN w2 ELSE forEachChild(w5, path, module.children, hot, 1)

forEachChild(w, path, children, hot, i) ==
  IF i > Len(children) \/ w.thrown THEN w
  ELSE forEachChild(installModule(w, Append(path, children[i]), hot),
                    path, children, hot, i + 1)

\* the public getters are rebuilt from the wrapped getters of this moment; on a hot
\* reset the state of the old vm is set to null inside _withCommit
resetStoreVM(w, hot) ==
  LET w1 == [w EXCEPT !.getters = w.wrappedGetters]
  IN IF hot THEN withCommitLeave(stateWrite(withCommitEnter(w1), "resetStoreVM", <<>>),
                                 w1.committing)
     ELSE w1

resetStore(w, hot) ==
  LET w1 == [w EXCEPT !.actions = EmptyMap, !.mutations = EmptyMap,
                      !.wrappedGetters = EmptyMap, !.modulesNamespaceMap = EmptyMap]
      w2 == installModule(w1, <<>>, TRUE)
  IN IF w2.thrown THEN w2 ELSE resetStoreVM(w2, hot)

GetterBody(body, count) == IF body = "double" THEN count * 2 ELSE count * 3

\* store.getters[type]: the computed property of store._vm, which the reactive engine
\* keeps equal to wrappedGetter(store) = rawGetter(local.state, ...) on the state of now
getterRead(w, type) ==
  GetterBody(w.getters[type].body, w.state[w.getters[type].local.path])

\* new Store(options)
NewStore(options) ==
  LET tree == NewModuleCollection(options)
      w0 == [committing |-> FALSE, actions |-> EmptyMap, actionSubscribers |-> <<>>,
             mutations |-> EmptyMap, wrappedGetters |-> EmptyMap, getters |-> EmptyMap,
             modules |-> tree, modulesNamespaceMap |-> EmptyMap, subscribers |-> <<>>,
             state |-> [p \in {<<>>} |-> tree[<<>>].state],
             log |-> <<>>, thrown |-> FALSE, ret |-> "undefined"]
  IN resetStoreVM(installModule(w0, <<>>, FALSE), FALSE)

(***************************************************************************)
(* replaceState, registerModule, unregisterModule                          *)
(***************************************************************************)
\* ModuleCollection.get(path): the module at path, as a sequence of zero or one
\* element; walking through a missing module throws
getThrows(tree, path) == path # <<>> /\ ~HasModule(tree, Front(path))

get(tree, path) == IF HasModule(tree, path) THEN <<tree[path]>> ELSE <<>>

\* (mutant) the runtime flag of the module is not looked at
unregisterAlways(tree, path) ==
  [p \in DOMAIN tree \ ({path} \cup Below(tree, path)) |->
     IF p = Front(path)
     THEN [tree[p] EXCEPT !.children = removeChild(@, Last(path))]
     ELSE tree[p]]

\* ModuleCollection.unregister(path), for a path that holds a module
unregister(tree, path) ==
  IF ~tree[path].runtime THEN tree
  ELSE [p \in DOMAIN tree \ ({path} \cup Below(tree, path)) |->
          IF p = Front(path)
          THEN [tree[p] EXCEPT !.children = removeChild(@, Last(path))]
          ELSE tree[p]]

\* this._withCommit(() => { this._vm._data.$$state = state })
replaceState(w, newState) ==
  LET w1 == [withCommitEnter(w) EXCEPT !.state = newState]
  IN withCommitLeave(stateWrite(w1, "replaceState", <<>>), w.committing)

\* store.registerModule(path, rawModule, {preserveState})
registerModule(w, path, rawModule, preserveState) ==
  IF path = <<>> \/ getThrows(w.modules, path) THEN Throw(w)
  ELSE LET w1 == [w EXCEPT !.modules = register(@, path, rawModule, TRUE)]
           w2 == installModule(w1, path, preserveState)
       IN IF w2.thrown THEN w2 ELSE resetStoreVM(w2, FALSE)

\* store.unregisterModule(path)
unregisterModule(w, path) ==
  IF path = <<>> \/ ~HasModule(w.modules, path) THEN Throw(w)
  ELSE LET w1 == [w EXCEPT !.modules = unregister(@, path)]
           w2 == withCommitEnter(w1)
           w3 == [w2 EXCEPT !.state = [q \in {q \in DOMAIN w.state : ~IsPrefix(path, q)} |->
                                         w.state[q]]]
       IN IF getNestedStateThrows(w1, path) THEN Throw(w2)
          ELSE resetStore(withCommitLeave(
                            IF path \in DOMAIN w.state
                            THEN stateWrite(w3, "unregisterModule", path) ELSE w2,
                            w.committing), FALSE)

(***************************************************************************)
(* hotUpdate                                                               *)
(***************************************************************************)
\* Module.prototype.update(rawModule), on the module's _rawModule
moduleUpdate(raw, rawModule) ==
  LET fields == DOMAIN raw \cup (DOMAIN rawModule \cap {"actions", "mutations", "getters"})
  IN [f \in fields |->
        IF f = "namespaced" THEN rawModule.namespaced
        ELSE IF f \in {"actions", "mutations", "getters"} /\ f \in DOMAIN rawModule
             THEN rawModule[f]
             ELSE raw[f]]

\* update(path, targetModule, newModule) of module-collection.js
RECURSIVE update(_, _, _)
RECURSIVE updateChildren(_, _, _, _)
RECURSIVE updateChildrenRegistering(_, _, _, _)

\* (mutant) a child the tree does not hold is registered
updateChildrenRegistering(w, path, rawChildren, i) ==
  IF i > Len(rawChildren) THEN w
  ELSE IF ~HasModule(w.modules, Append(path, rawChildren[i].key))
       THEN updateChildrenRegistering(
              [w EXCEPT !.modules = register(@, Append(path, rawChildren[i].key),
                                             rawChildren[i].def, TRUE)],
              path, rawChildren, i + 1)
       ELSE updateChildrenRegistering(
              update(w, Append(path, rawChildren[i].key), rawChildren[i].def),
              path, rawChildren, i + 1)

update(w, path, newModule) ==
  updateChildren([w EXCEPT !.modules[path].rawModule = moduleUpdate(@, newModule)],
                 path, Table(newModule, "modules"), 1)

updateChildren(w, path, rawChildren, i) ==
  IF i > Len(rawChildren) THEN w
  ELSE IF ~HasModule(w.modules, Append(path, rawChildren[i].key))
       THEN Diagnostic(w, "warn: trying to add a new module on hot reloading",
                       rawChildren[i].key)
       ELSE updateChildren(update(w, Append(path, rawChildren[i].key), rawChildren[i].def),
                           path, rawChildren, i + 1)

hotUpdate(w, newOptions) == resetStore(update(w, <<>>, newOptions), TRUE)

(***************************************************************************)
(* Subscriptions.                                                          *)
(***************************************************************************)
\* (mutant) no check of the index: subs.splice(-1, 1) removes the last subscriber
unsubscribeUnchecked(w, subs, fn) ==
  LET i == indexOf(w[subs], fn)
  IN IF i > 0 THEN [w EXCEPT ![subs] = splice(@, i)]
     ELSE IF w[subs] # <<>> THEN [w EXCEPT ![subs] = Front(@)] ELSE w

\* the closure genericSubscribe returns: i = subs.indexOf(fn); if (i > -1) subs.splice(i, 1)
unsubscribe(w, subs, fn) ==
  LET i == indexOf(w[subs], fn)
  IN IF i > 0 THEN [w EXCEPT ![subs] = splice(@, i)] ELSE w

\* (mutant) fn is pushed without looking for it in the list
genericSubscribeAlways(w, fn, subs) ==
  [w EXCEPT ![subs] = Append(@, fn),
            !.ret = [fn |-> fn, subs |-> subs, added |-> TRUE, called |-> FALSE]]

\* genericSubscribe(fn, subs); the closure is kept as its two captured values, with
\* whether this call pushed fn and whether the closure has been called
genericSubscribe(w, fn, subs) ==
  LET absent == indexOf(w[subs], fn) < 1
      w1 == IF absent THEN [w EXCEPT ![subs] = Append(@, fn)] ELSE w
  IN [w1 EXCEPT !.ret = [fn |-> fn, subs |-> subs, added |-> absent, called |-> FALSE]]

\* no closure is under observation
NoClosure == [fn |-> "", subs |-> "", added |-> FALSE, called |-> FALSE]

\* sub(mutation, this.state) / sub(action, this.state)
callSubscriber(w, subs, fn, type, payload) ==
  LET w1 == Emit(w, Event(subs, w, fn, <<>>, type, payload))
  IN IF fn = "once" THEN unsubscribe(w1, subs, fn)
     ELSE IF fn = "writer" THEN directWrite(w1, fn, <<>>)
     ELSE w1

\* subs.forEach(sub => ...): the length is read once, the array is read at each index
RECURSIVE forEachSubscriber(_, _, _, _, _, _)
forEachSubscriber(w, subs, k, len, type, payload) ==
  IF k > len \/ k > Len(w[subs]) \/ w.thrown THEN w
  ELSE forEachSubscriber(callSubscriber(w, subs, w[subs][k], type, payload),
                         subs, k + 1, len, type, payload)

(***************************************************************************)
(* commit                                                                  *)
(***************************************************************************)
MutationBody(body, count, payload) ==
  IF body = "add2" THEN count + 2 * payload ELSE count + payload

RECURSIVE commit(_, _, _)
RECURSIVE wrappedMutationHandler(_, _, _, _)

\* (mutant) the handler is given the root state instead of the module's state
wrappedMutationHandlerRootState(w, handler, type, payload) ==
  LET w1 == [w EXCEPT !.state[<<>>] = MutationBody(handler.body, @, payload)]
  IN Emit(w1, Event("mutation", w1, handler.body, handler.local.path, type, payload))

\* handler.call(store, local.state, payload); local.state is getNestedState(store.state, path)
wrappedMutationHandler(w, handler, type, payload) ==
  LET path == handler.local.path
  IN IF getNestedStateThrows(w, path) \/ ~HasState(w, path) THEN Throw(w)
     ELSE IF handler.body = "throw"
     THEN Throw(Emit(w, Event("mutation", w, handler.body, path, type, payload)))
     ELSE LET w1 == [w EXCEPT !.state[path] = MutationBody(handler.body, @, payload)]
              w2 == strictWatcher(
                      Emit(w1, Event("mutation", w1, handler.body, path, type, payload)))
          IN IF handler.body = "commitInner" THEN commit(w2, "increment", payload) ELSE w2

RECURSIVE commitIterator(_, _, _, _, _)
commitIterator(w, entry, type, payload, i) ==
  IF i > Len(entry) \/ w.thrown THEN w
  ELSE commitIterator(wrappedMutationHandler(w, entry[i], type, payload),
                      entry, type, payload, i + 1)

\* (mutant) no check that the type has handlers: entry.forEach throws inside _withCommit
commitUnchecked(w, type, payload) ==
  IF type \notin DOMAIN w.mutations
  THEN Throw(withCommitEnter(w))
  ELSE LET w1 == commitIterator(withCommitEnter(w), w.mutations[type], type, payload, 1)
           w2 == withCommitLeave(w1, w.committing)
       IN forEachSubscriber(w2, "subscribers", 1, Len(w2.subscribers), type, payload)

\* (mutant) the subscribers are notified before the handlers run
commitSubscribersFirst(w, type, payload) ==
  IF type \notin DOMAIN w.mutations
  THEN Diagnostic(w, "error: unknown mutation type", type)
  ELSE LET w1 == forEachSubscriber(w, "subscribers", 1, Len(w.subscribers), type, payload)
           w2 == commitIterator(withCommitEnter(w1), w.mutations[type], type, payload, 1)
       IN withCommitLeave(w2, w.committing)

commit(w, type, payload) ==
  IF type \notin DOMAIN w.mutations
  THEN Diagnostic(w, "error: unknown mutation type", type)
  ELSE LET w1 == commitIterator(withCommitEnter(w), w.mutations[type], type, payload, 1)
           w2 == withCommitLeave(w1, w.committing)
       IN forEachSubscriber(w2, "subscribers", 1, Len(w2.subscribers), type, payload)

\* (mutant) the local commit does not prefix the namespace
localCommitBare(w, local, type, payload, root) == commit(w, type, payload)

\* local.commit of makeLocalContext
localCommit(w, local, type, payload, root) ==
  IF local.namespace = "" THEN commit(w, type, payload)
  ELSE IF ~root /\ (local.namespace \o type) \notin DOMAIN w.mutations
       THEN Diagnostic(w, "error: unknown local mutation type", local.namespace \o type)
       ELSE commit(w, IF root THEN type ELSE local.namespace \o type, payload)

(***************************************************************************)
(* dispatch.  A promise is "pending", "resolved" or "rejected".            *)
(***************************************************************************)
RECURSIVE dispatch(_, _, _)
RECURSIVE wrappedActionHandler(_, _, _, _)

\* local.dispatch of makeLocalContext
localDispatch(w, local, type, payload, root) ==
  IF local.namespace = "" THEN dispatch(w, type, payload)
  ELSE IF ~root /\ (local.namespace \o type) \notin DOMAIN w.actions
       THEN Diagnostic(w, "error: unknown local action type", local.namespace \o type)
       ELSE dispatch(w, IF root THEN type ELSE local.namespace \o type, payload)

\* what the body of an action calls on its context
ActionCall(body) ==
  CASE body = "commitRoot" -> [op |-> "commit", type |-> "increment", root |-> TRUE]
    [] body = "commitMissing" -> [op |-> "commit", type |-> "missing", root |-> FALSE]
    [] body = "dispatchLocal" -> [op |-> "dispatch", type |-> "leaf", root |-> FALSE]
    [] body = "dispatchRoot" -> [op |-> "dispatch", type |-> "act", root |-> TRUE]
    [] body = "dispatchMissing" -> [op |-> "dispatch", type |-> "missing", root |-> FALSE]
    [] OTHER -> [op |-> "commit", type |-> "increment", root |-> FALSE]

\* handler.call(store, context, payload), then Promise.resolve(res) unless res is a promise
wrappedActionHandler(w, handler, type, payload) ==
  LET w1 == Emit(w, Event("action", w, handler.body, handler.local.path, type, payload))
      call == ActionCall(handler.body)
      w2 == IF handler.body = "pending" THEN w1
            ELSE IF handler.body = "write" THEN directWrite(w1, "action", handler.local.path)
            ELSE IF call.op = "commit"
                 THEN localCommit(w1, handler.local, call.type, payload, call.root)
                 ELSE localDispatch(w1, handler.local, call.type, payload, call.root)
  IN IF w2.thrown THEN w2
     ELSE [w2 EXCEPT !.ret = IF handler.body \in {"pending", "commitPending"} THEN "pending"
                             ELSE "resolved"]

\* (mutant) a handler is started only when the promise of the one before is not pending
RECURSIVE entryMapAwaiting(_, _, _, _, _, _)
entryMapAwaiting(w, entry, type, payload, i, results) ==
  IF w.thrown THEN w
  ELSE IF i > Len(entry) \/ (i > 1 /\ results[i - 1] = "pending")
       THEN [w EXCEPT !.ret = results]
  ELSE LET w1 == wrappedActionHandler(w, entry[i], type, payload)
       IN entryMapAwaiting(w1, entry, type, payload, i + 1, Append(results, w1.ret))

\* entry.map(handler => handler(payload)): the promises, in w.ret
RECURSIVE entryMap(_, _, _, _, _, _)
entryMap(w, entry, type, payload, i, results) ==
  IF w.thrown THEN w
  ELSE IF i > Len(entry) THEN [w EXCEPT !.ret = results]
  ELSE LET w1 == wrappedActionHandler(w, entry[i], type, payload)
       IN entryMap(w1, entry, type, payload, i + 1, Append(results, w1.ret))

\* (mutant) the aggregate is the promise of the first handler
PromiseFirst(type, results) ==
  [type |-> type, handlers |-> results, all |-> FALSE,
   reacted |-> [i \in DOMAIN results |-> TRUE],
   remaining |-> 0, result |-> results[1]]

\* Promise.all(promises): pending until every element has been seen resolved
PromiseAll(type, results) ==
  [type |-> type, handlers |-> results, all |-> TRUE,
   reacted |-> [i \in DOMAIN results |-> FALSE],
   remaining |-> Len(results), result |-> "pending"]

\* no promise: dispatch returned undefined, or nothing has been dispatched
NoPromise ==
  [type |-> "", handlers |-> <<>>, all |-> FALSE, reacted |-> <<>>,
   remaining |-> 0, result |-> "undefined"]

\* entry[0](payload): the handler's own promise
Single(type, results) ==
  [type |-> type, handlers |-> results, all |-> FALSE,
   reacted |-> [i \in DOMAIN results |-> TRUE],
   remaining |-> 0, result |-> results[1]]

\* (mutant) the action subscribers are notified before the handlers are looked up
dispatchSubscribersFirst(w, type, payload) ==
  LET w1 == forEachSubscriber(w, "actionSubscribers", 1, Len(w.actionSubscribers),
                              type, payload)
  IN IF type \notin DOMAIN w.actions
     THEN [Diagnostic(w1, "error: unknown action type", type) EXCEPT !.ret = NoPromise]
     ELSE LET entry == w.actions[type]
              w2 == entryMap(w1, entry, type, payload, 1, <<>>)
          IN IF w2.thrown THEN w2
             ELSE [w2 EXCEPT !.ret = IF Len(entry) > 1 THEN PromiseAll(type, w2.ret)
                                       ELSE Single(type, w2.ret)]

dispatch(w, type, payload) ==
  IF type \notin DOMAIN w.actions
  THEN [Diagnostic(w, "error: unknown action type", type) EXCEPT !.ret = NoPromise]
  ELSE LET entry == w.actions[type]
           w1 == forEachSubscriber(w, "actionSubscribers", 1, Len(w.actionSubscribers),
                                   type, payload)
           w2 == entryMap(w1, entry, type, payload, 1, <<>>)
       IN IF w2.thrown THEN w2
          ELSE [w2 EXCEPT !.ret = IF Len(entry) > 1 THEN PromiseAll(type, w2.ret)
                                    ELSE Single(type, w2.ret)]

(***************************************************************************)
(* The state machine.                                                      *)
(***************************************************************************)
\* the store as an operation finds it
World ==
  [committing |-> committing, actions |-> actions, actionSubscribers |-> actionSubscribers,
   mutations |-> mutations, wrappedGetters |-> wrappedGetters, getters |-> getters,
   modules |-> modules, modulesNamespaceMap |-> modulesNamespaceMap,
   subscribers |-> subscribers, state |-> state,
   log |-> <<>>, thrown |-> FALSE, ret |-> "undefined"]

\* the store as an operation leaves it
Becomes(w) ==
  /\ committing' = w.committing
  /\ actions' = w.actions
  /\ actionSubscribers' = w.actionSubscribers
  /\ mutations' = w.mutations
  /\ wrappedGetters' = w.wrappedGetters
  /\ getters' = w.getters
  /\ modules' = w.modules
  /\ modulesNamespaceMap' = w.modulesNamespaceMap
  /\ subscribers' = w.subscribers
  /\ state' = w.state
  /\ log' = w.log

storeVars == <<committing, mutations, actions, wrappedGetters, getters, modules,
               modulesNamespaceMap, subscribers, actionSubscribers, state>>

\* no definition was given to the operation
NoOptions == [namespaced |-> FALSE]

Op(name, type, payload, fn, w, ret) ==
  [op |-> name, type |-> type, payload |-> payload, fn |-> fn, options |-> NoOptions,
   path |-> <<>>, threw |-> w.thrown, ret |-> ret]

\* the counters of the state stay within the model's bound
Bounded(w) == \A p \in DOMAIN w.state : w.state[p] <= MaxCount

Init ==
  LET w == NewStore(RootOptions)
  IN /\ committing = w.committing
     /\ actions = w.actions
     /\ actionSubscribers = w.actionSubscribers
     /\ mutations = w.mutations
     /\ wrappedGetters = w.wrappedGetters
     /\ getters = w.getters
     /\ modules = w.modules
     /\ modulesNamespaceMap = w.modulesNamespaceMap
     /\ subscribers = w.subscribers
     /\ state = w.state
     /\ closure = NoClosure
     /\ promise = NoPromise
     /\ log = w.log
     /\ lastOp = Op("new Store", "", 0, "", w, "store")

\* store.commit(type, payload)
Commit(type, payload) ==
  LET w == commit(World, type, payload)
  IN /\ Bounded(w)
     /\ Becomes(w)
     /\ lastOp' = Op("commit", type, payload, "", w, "undefined")
     /\ UNCHANGED <<closure, promise>>

\* store.dispatch(type, payload); what it returns is the promise under observation
Dispatch(type, payload) ==
  LET w == dispatch(World, type, payload)
  IN /\ Bounded(w)
     /\ Becomes(w)
     /\ promise' = IF w.thrown THEN NoPromise ELSE w.ret
     /\ lastOp' = Op("dispatch", type, payload, "", w,
                     IF w.thrown \/ w.ret = NoPromise THEN "undefined" ELSE "promise")
     /\ UNCHANGED closure

\* store.subscribe(fn) and store.subscribeAction(fn); a caller that keeps the closure
\* puts it under observation
Subscribe(fn, subs, keep) ==
  LET w == genericSubscribe(World, fn, subs)
  IN /\ Becomes(w)
     /\ closure' = IF keep THEN w.ret ELSE closure
     /\ lastOp' = Op(IF subs = "subscribers" THEN "subscribe" ELSE "subscribeAction",
                     subs, 0, fn, w, IF keep THEN "kept" ELSE "dropped")
     /\ UNCHANGED promise

\* a call of the unsubscribe closure under observation
Unsubscribe ==
  /\ closure # NoClosure
  /\ LET w == unsubscribe(World, closure.subs, closure.fn)
     IN /\ Becomes(w)
        /\ closure' = [closure EXCEPT !.called = TRUE]
        /\ lastOp' = Op("unsubscribe", closure.subs, 0, closure.fn, w, "undefined")
        /\ UNCHANGED promise

\* the promise the i-th action handler returned settles
SettleHandler(i, outcome) ==
  /\ i \in DOMAIN promise.handlers
  /\ promise.handlers[i] = "pending"
  /\ promise' = [promise EXCEPT !.handlers[i] = outcome,
                                !.result = IF promise.all THEN @ ELSE outcome]
  /\ log' = <<>>
  /\ lastOp' = Op("settle", promise.type, i, outcome, World, "undefined")
  /\ UNCHANGED <<storeVars, closure>>

\* Promise.all's reaction to its i-th element having settled
React(i) ==
  LET resolved == promise.handlers[i] = "resolved"
      remaining == IF resolved THEN promise.remaining - 1 ELSE promise.remaining
  IN /\ i \in DOMAIN promise.handlers
     /\ promise.all
     /\ promise.handlers[i] # "pending"
     /\ ~promise.reacted[i]
     /\ promise' = [promise EXCEPT
          !.reacted[i] = TRUE,
          !.remaining = remaining,
          !.result = IF @ # "pending" THEN @
                     ELSE IF ~resolved THEN "rejected"
                     ELSE IF remaining = 0 THEN "resolved" ELSE "pending"]
     /\ log' = <<>>
     /\ lastOp' = Op("react", promise.type, i, promise.handlers[i], World, "undefined")
     /\ UNCHANGED <<storeVars, closure>>

\* store.hotUpdate(newOptions)
HotUpdate(newOptions) ==
  LET w == hotUpdate(World, newOptions)
  IN /\ Becomes(w)
     /\ lastOp' = [Op("hotUpdate", "", 0, "", w, "undefined") EXCEPT !.options = newOptions]
     /\ UNCHANGED <<closure, promise>>

\* the registries stay within the model's bound
Roomy(w) ==
  /\ \A type \in DOMAIN w.mutations : Len(w.mutations[type]) <= MaxHandlers
  /\ \A type \in DOMAIN w.actions : Len(w.actions[type]) <= MaxHandlers

\* store.registerModule(path, rawModule, {preserveState})
RegisterModule(path, rawModule, preserveState) ==
  LET w == registerModule(World, path, rawModule, preserveState)
  IN /\ Roomy(w)
     /\ Becomes(w)
     /\ lastOp' = [Op("registerModule", "", 0, "", w, "undefined") EXCEPT
                     !.path = path, !.options = rawModule,
                     !.ret = IF preserveState THEN "preserveState" ELSE "undefined"]
     /\ UNCHANGED <<closure, promise>>

\* store.unregisterModule(path)
UnregisterModule(path) ==
  LET w == unregisterModule(World, path)
  IN /\ Becomes(w)
     /\ lastOp' = [Op("unregisterModule", "", 0, "", w, "undefined") EXCEPT !.path = path]
     /\ UNCHANGED <<closure, promise>>

\* store.replaceState(state), with a state of the shape of the present one
ReplaceState(newState) ==
  LET w == replaceState(World, newState)
  IN /\ Becomes(w)
     /\ lastOp' = Op("replaceState", "", 0, "", w, "undefined")
     /\ UNCHANGED <<closure, promise>>

\* code outside the store writes store.state.count
ExternalWrite ==
  LET w == directWrite(World, "external", <<>>)
  IN /\ Becomes(w)
     /\ lastOp' = Op("write", "", 0, "", w, "undefined")
     /\ UNCHANGED <<closure, promise>>

MutationTypes == {"increment", "a/increment", "unknown"}
ActionTypes == {"act", "a/act", "unknown"}
Lists == {"subscribers", "actionSubscribers"}

\* commits, mutation subscribers and hot updates
NextCommit ==
  \/ \E type \in MutationTypes, payload \in Payloads : Commit(type, payload)
  \/ \E fn \in Fns : Subscribe(fn, "subscribers", FALSE)
  \/ \E newOptions \in HotOptions : HotUpdate(newOptions)

\* subscriptions and the closures they return
NextSubscribe ==
  \/ \E fn \in Fns, subs \in Lists, keep \in BOOLEAN : Subscribe(fn, subs, keep)
  \/ Unsubscribe
  \/ Commit("a/increment", 5)

\* dispatches and commits, subscribers of both kinds and the promises of the handlers
NextDispatch ==
  \/ \E type \in ActionTypes : Dispatch(type, 5)
  \/ \E type \in MutationTypes : Commit(type, 5)
  \/ \E fn \in Fns : Subscribe(fn, "actionSubscribers", FALSE)
  \/ \E fn \in {"f", "once"} : Subscribe(fn, "subscribers", FALSE)
  \/ \E i \in 1..2, outcome \in {"resolved", "rejected"} : SettleHandler(i, outcome)
  \/ \E i \in 1..2 : React(i)

\* dynamic registration: a path that holds a module of the construction, a free path
DynamicPaths == {<<"a">>, <<"c">>}

DynamicModules == {ModuleN, ModuleP}

NextModules ==
  \/ \E path \in DynamicPaths, rawModule \in DynamicModules, preserveState \in BOOLEAN :
       RegisterModule(path, rawModule, preserveState)
  \/ \E path \in DynamicPaths : UnregisterModule(path)
  \/ \E type \in {"increment", "a/increment", "c/increment", "c/nest"} : Commit(type, 5)
  \/ Dispatch("act", 5)

\* writes of the store and of others, in a strict store
NextStrict ==
  \/ RegisterModule(<<"c">>, ModuleN, FALSE)
  \/ \E path \in DynamicPaths : UnregisterModule(path)
  \/ \E type \in {"increment", "a/increment", "c/nest", "c/boom"} : Commit(type, 5)
  \/ \E fn \in {"f", "writer"} : Subscribe(fn, "subscribers", FALSE)
  \/ Dispatch("c/poke", 5)
  \/ ReplaceState([q \in DOMAIN state |-> 0])
  \/ ExternalWrite
  \/ HotUpdate([namespaced |-> FALSE, modules |-> <<[key |-> "a", def |-> HotA("add2", TRUE)]>>])

LocalTypes ==
  {"commitLocal", "commitRoot", "commitMissing", "dispatchLocal", "dispatchRoot",
   "dispatchMissing"}

\* the local commit and dispatch of a module, namespaced or not
NextLocal ==
  \/ \E ns \in BOOLEAN : RegisterModule(<<"c">>, ModuleL(ns), FALSE)
  \/ UnregisterModule(<<"c">>)
  \/ \E type \in LocalTypes, ns \in {"", "c/"} : Dispatch(ns \o type, 5)
  \/ \E subs \in Lists : Subscribe("f", subs, FALSE)

\* registration without preserveState, unregistration, hot updates and commits
NextStatic ==
  \/ \E path \in DynamicPaths, rawModule \in DynamicModules :
       RegisterModule(path, rawModule, FALSE)
  \/ \E path \in DynamicPaths : UnregisterModule(path)
  \/ \E newOptions \in HotOptions : HotUpdate(newOptions)
  \/ \E type \in {"increment", "a/increment", "c/increment"} : Commit(type, 5)

Next ==
  \/ NextCommit \/ NextSubscribe \/ NextDispatch \/ NextModules \/ NextStrict \/ NextLocal
  \/ NextStatic

Spec == Init /\ [][Next]_vars

SpecCommit == Init /\ [][NextCommit]_vars

SpecSubscribe == Init /\ [][NextSubscribe]_vars

SpecDispatch == Init /\ [][NextDispatch]_vars

SpecModules == Init /\ [][NextModules]_vars

SpecStrict == Init /\ [][NextStrict]_vars

SpecLocal == Init /\ [][NextLocal]_vars

SpecStatic == Init /\ [][NextStatic]_vars

(***************************************************************************)
(* Reading the log of an operation.                                        *)
(***************************************************************************)
FnsOf(events) == [i \in DOMAIN events |-> events[i].fn]

EventsOf(events, kind) == SelectSeq(events, LAMBDA e : e.ev = kind)

\* the elements of s are elements of list, in the order they have in list
InOrderOf(s, list) ==
  /\ \A i \in DOMAIN s : s[i] \in Range(list)
  /\ \A i, j \in DOMAIN s : i < j => indexOf(list, s[i]) < indexOf(list, s[j])

(***************************************************************************)
(* C1.  A commit of a registered type runs every handler of the type, in   *)
(* registration order, with _committing true; the mutation subscribers are *)
(* notified only after the last handler, in subscription order, each with  *)
(* ({type, payload}, state) where the state is the one the last handler    *)
(* left; when no subscriber changes the list during the pass, every        *)
(* subscriber is notified exactly once.                                    *)
(***************************************************************************)
C1_CommitProtocol ==
  [][(lastOp'.op = "commit" /\ lastOp'.type \in DOMAIN mutations /\ ~lastOp'.threw) =>
       LET entry == mutations[lastOp'.type]
           n == Len(entry)
           notified == SubSeq(log', n + 1, Len(log'))
       IN /\ Len(log') >= n
          /\ \A i \in 1..n :
               /\ log'[i].ev = "mutation"
               /\ log'[i].path = entry[i].local.path
               /\ log'[i].fn = entry[i].body
               /\ log'[i].type = lastOp'.type
               /\ log'[i].payload = lastOp'.payload
               /\ log'[i].committing
          /\ log'[n].state # state
          /\ \A i \in DOMAIN notified :
               /\ notified[i].ev = "subscribers"
               /\ notified[i].type = lastOp'.type
               /\ notified[i].payload = lastOp'.payload
               /\ notified[i].state = log'[n].state
               /\ notified[i].state = state'
          /\ InOrderOf(FnsOf(notified), subscribers)
          /\ subscribers' = subscribers => FnsOf(notified) = subscribers
    ]_vars

\* a commit of `increment` ran the handlers of the root and of b, then told g and f
C1_Witness ==
  /\ lastOp.op = "commit"
  /\ lastOp.type = "increment"
  /\ subscribers = <<"g", "f">>
  /\ Len(log) = 4
  /\ log[1].path = <<>> /\ log[2].path = <<"b">>
  /\ log[3].fn = "g" /\ log[4].fn = "f"

(***************************************************************************)
(* C2.  With a namespaced module a whose mutation `increment` adds the     *)
(* payload to its count, the count starts at 0 and every                   *)
(* commit('a/increment', p) adds p to state.a.count and leaves every other *)
(* slice as it was: n commits of p leave n * p.                            *)
(***************************************************************************)
IncrementModule ==
  /\ HasModule(modules, <<"a">>)
  /\ Namespaced(modules[<<"a">>])
  /\ Table(modules[<<"a">>].rawModule, "mutations") = <<Entry("increment", "add")>>

C2_Increment ==
  /\ IncrementModule /\ state[<<"a">>] = 0
  /\ [][(lastOp'.op = "commit" /\ lastOp'.type = "a/increment" /\ IncrementModule) =>
          state' = [state EXCEPT ![<<"a">>] = @ + lastOp'.payload]
       ]_vars

\* two commits of 5 from the initial state: 10, and nothing else has changed
C2_Witness ==
  /\ lastOp.op = "commit" /\ lastOp.type = "a/increment" /\ lastOp.payload = 5
  /\ state[<<"a">>] = 10
  /\ state[<<>>] = 0 /\ state[<<"b">>] = 0

(***************************************************************************)
(* C3.  The result of a dispatch of a type with two or more handlers is    *)
(* resolved only when the promise of every handler is resolved, is         *)
(* resolved once all of them have been seen resolved, and is rejected as   *)
(* soon as the rejection of one handler is seen, whatever the others are;  *)
(* in every order of settling.                                             *)
(***************************************************************************)
C3_Aggregate ==
  Len(promise.handlers) > 1 =>
    LET H == DOMAIN promise.handlers
    IN /\ promise.result = "resolved" => \A i \in H : promise.handlers[i] = "resolved"
       /\ (\A i \in H : promise.handlers[i] = "resolved" /\ promise.reacted[i])
            => promise.result = "resolved"
       /\ (\E i \in H : promise.handlers[i] = "rejected" /\ promise.reacted[i])
            => promise.result = "rejected"
       /\ promise.result = "rejected" => \E i \in H : promise.handlers[i] = "rejected"

\* the second handler rejected first: the aggregate is rejected, the first still pending
C3_Witness ==
  /\ promise.type = "act"
  /\ promise.handlers = <<"pending", "rejected">>
  /\ promise.result = "rejected"

(***************************************************************************)
(* C4.  In a dispatch of a registered type the notifications of the action *)
(* subscribers are the first events, in subscription order, and none       *)
(* follows the start of a handler; then every handler of the type is       *)
(* started, in registration order, in the same call: a handler whose       *)
(* promise is pending does not hold back the next one.                     *)
(***************************************************************************)
C4_DispatchOrder ==
  [][(lastOp'.op = "dispatch" /\ lastOp'.type \in DOMAIN actions /\ ~lastOp'.threw) =>
       LET entry == actions[lastOp'.type]
           k == Len(EventsOf(log', "actionSubscribers"))
           started == EventsOf(log', "action")
       IN /\ \A i \in 1..k : log'[i].ev = "actionSubscribers"
          /\ InOrderOf(FnsOf(SubSeq(log', 1, k)), actionSubscribers)
          /\ actionSubscribers' = actionSubscribers =>
               FnsOf(SubSeq(log', 1, k)) = actionSubscribers
          /\ Len(log') > k /\ log'[k + 1].ev = "action"
          /\ Len(started) = Len(entry)
          /\ \A i \in DOMAIN entry :
               /\ started[i].path = entry[i].local.path
               /\ started[i].fn = entry[i].body
               /\ started[i].type = lastOp'.type
               /\ started[i].payload = lastOp'.payload
          /\ Len(promise'.handlers) = Len(entry)
          /\ \A i \in DOMAIN entry :
               entry[i].body # "commitSync" => promise'.handlers[i] = "pending"
    ]_vars

\* f and g were told, then both handlers of `act` were started, both still pending
C4_Witness ==
  /\ lastOp.op = "dispatch" /\ lastOp.type = "act"
  /\ actionSubscribers = <<"f", "g">>
  /\ log[1].fn = "f" /\ log[2].fn = "g"
  /\ log[3].ev = "action" /\ log[3].path = <<>>
  /\ log[4].ev = "action" /\ log[4].path = <<"b">>
  /\ promise.handlers = <<"pending", "pending">>

(***************************************************************************)
(* C5.  A commit of a type without handlers changes nothing in the store   *)
(* (state, _committing, registries, subscriber lists), runs no handler,    *)
(* notifies no subscriber and returns; a dispatch of a type without        *)
(* handlers runs no handler, leaves the state as it was and returns        *)
(* undefined.                                                              *)
(***************************************************************************)
C5_UnknownType ==
  [][/\ (lastOp'.op = "commit" /\ lastOp'.type \notin DOMAIN mutations) =>
          /\ UNCHANGED storeVars
          /\ ~lastOp'.threw
          /\ Len(log') = 1 /\ log'[1].ev = "error: unknown mutation type"
     /\ (lastOp'.op = "dispatch" /\ lastOp'.type \notin DOMAIN actions) =>
          /\ state' = state
          /\ ~lastOp'.threw
          /\ lastOp'.ret = "undefined" /\ promise' = NoPromise
          /\ EventsOf(log', "action") = <<>> /\ EventsOf(log', "mutation") = <<>>
    ]_vars

\* an unknown type was committed in a store that has subscribers and a changed state
C5_Witness ==
  /\ lastOp.op = "commit" /\ lastOp.type = "unknown"
  /\ subscribers # <<>>
  /\ state[<<"a">>] > 0
  /\ Len(log) = 1

(***************************************************************************)
(* C6 as claimed.  Every dispatch, also of a type without handlers,        *)
(* notifies every action subscriber before anything else (stated for the   *)
(* passes in which no subscriber changes the list).                        *)
(***************************************************************************)
C6_SubscribersFirst ==
  [][(lastOp'.op = "dispatch" /\ ~lastOp'.threw /\ actionSubscribers' = actionSubscribers) =>
       LET k == Len(actionSubscribers)
       IN /\ Len(log') >= k
          /\ FnsOf(SubSeq(log', 1, k)) = actionSubscribers
          /\ \A i \in 1..k : log'[i].ev = "actionSubscribers"
    ]_vars

(***************************************************************************)
(* C6 as amended.  dispatch looks the handlers up first.  For a type       *)
(* without handlers it only reports the unknown type: no action subscriber *)
(* is notified and the store is unchanged.  For a registered type the      *)
(* action subscribers are notified with ({type, payload}, state), the      *)
(* state being the one before the dispatch, in subscription order (all of  *)
(* them when no subscriber changes the list during the pass).              *)
(***************************************************************************)
C6_LookupFirst ==
  [][(lastOp'.op = "dispatch" /\ ~lastOp'.threw) =>
       LET told == EventsOf(log', "actionSubscribers")
       IN IF lastOp'.type \notin DOMAIN actions
          THEN /\ told = <<>>
               /\ Len(log') = 1 /\ log'[1].ev = "error: unknown action type"
               /\ UNCHANGED storeVars
          ELSE /\ \A i \in DOMAIN told :
                    /\ told[i].type = lastOp'.type
                    /\ told[i].payload = lastOp'.payload
                    /\ told[i].state = state
                    /\ log'[i] = told[i]
               /\ InOrderOf(FnsOf(told), actionSubscribers)
               /\ actionSubscribers' = actionSubscribers => FnsOf(told) = actionSubscribers
    ]_vars

\* an unknown type was dispatched in a store with two action subscribers: none was told
C6_Witness ==
  /\ lastOp.op = "dispatch" /\ lastOp.type = "unknown"
  /\ actionSubscribers = <<"f", "g">>
  /\ Len(log) = 1 /\ log[1].ev = "error: unknown action type"

(***************************************************************************)
(* C7.  subscribe and subscribeAction append the callback only if the list *)
(* does not hold it: no list ever holds a callback twice, and one commit   *)
(* notifies a callback at most once.  A call of the returned closure       *)
(* leaves the list without the callback and with the others as they were.  *)
(* A commit notifies only callbacks that are in the list, and only a       *)
(* subscribe of the callback puts it back.                                 *)
(***************************************************************************)
NoDuplicates(list) == \A i, j \in DOMAIN list : list[i] = list[j] => i = j

ListOf(subs) == IF subs = "subscribers" THEN subscribers ELSE actionSubscribers

ListOfNext(subs) == IF subs = "subscribers" THEN subscribers' ELSE actionSubscribers'

C7_AppendIfAbsent ==
  /\ [](NoDuplicates(subscribers) /\ NoDuplicates(actionSubscribers))
  /\ [][/\ lastOp'.op \in {"subscribe", "subscribeAction"} =>
             /\ ListOfNext(lastOp'.type) =
                  IF lastOp'.fn \in Range(ListOf(lastOp'.type)) THEN ListOf(lastOp'.type)
                  ELSE Append(ListOf(lastOp'.type), lastOp'.fn)
             /\ Cardinality({i \in DOMAIN ListOfNext(lastOp'.type) :
                               ListOfNext(lastOp'.type)[i] = lastOp'.fn}) = 1
        /\ lastOp'.op = "unsubscribe" =>
             /\ closure.fn \notin Range(ListOfNext(closure.subs))
             /\ ListOfNext(closure.subs) =
                  SelectSeq(ListOf(closure.subs), LAMBDA fn : fn # closure.fn)
        /\ lastOp'.op = "commit" =>
             /\ Range(FnsOf(EventsOf(log', "subscribers"))) \subseteq Range(subscribers)
             /\ NoDuplicates(FnsOf(EventsOf(log', "subscribers")))
        /\ \A fn \in Range(subscribers') \ Range(subscribers) :
             lastOp'.op = "subscribe" /\ lastOp'.fn = fn
       ]_vars

\* f was subscribed a second time: the list holds it once, the call added nothing
C7_Witness ==
  /\ lastOp.op = "subscribe" /\ lastOp.fn = "f"
  /\ closure.fn = "f" /\ closure.subs = "subscribers"
  /\ ~closure.added /\ ~closure.called
  /\ subscribers = <<"g", "f">>

(***************************************************************************)
(* C8 as claimed.  A second or later call of an unsubscribe closure, and a *)
(* call of a closure whose subscribe call did not add the callback, leave  *)
(* the subscriber lists unchanged.                                         *)
(***************************************************************************)
C8_SecondCallNoOp ==
  [][(lastOp'.op = "unsubscribe" /\ (closure.called \/ ~closure.added)) =>
       UNCHANGED <<subscribers, actionSubscribers>>
    ]_vars

(***************************************************************************)
(* C8 as amended.  A call of an unsubscribe closure is a no-op exactly     *)
(* when its callback is not in the list at the time of the call; when the  *)
(* callback is in the list the call removes it, whichever subscribe call   *)
(* put it there and however often the closure was called before.  The      *)
(* other list is never touched.                                            *)
(***************************************************************************)
C8_RemovesIfPresent ==
  [][lastOp'.op = "unsubscribe" =>
       LET list == ListOf(closure.subs)
           other == IF closure.subs = "subscribers" THEN actionSubscribers ELSE subscribers
           other2 == IF closure.subs = "subscribers" THEN actionSubscribers' ELSE subscribers'
       IN /\ other2 = other
          /\ closure.fn \notin Range(list) => ListOfNext(closure.subs) = list
          /\ closure.fn \in Range(list) =>
               /\ ListOfNext(closure.subs) = splice(list, indexOf(list, closure.fn))
               /\ Len(ListOfNext(closure.subs)) = Len(list) - 1
    ]_vars

\* f was in the list when it was subscribed again; the closure of that second call
\* has been called and f is gone
C8_Witness ==
  /\ lastOp.op = "unsubscribe"
  /\ closure.fn = "f" /\ closure.subs = "subscribers"
  /\ ~closure.added /\ closure.called
  /\ "f" \notin Range(subscribers)

(***************************************************************************)
(* C9.  While module a is namespaced and defines the getter `total` as     *)
(* state => state.count * 2, getters['a/total'] exists and reads as        *)
(* 2 * state.a.count in every state.                                       *)
(***************************************************************************)
TotalModule ==
  /\ HasModule(modules, <<"a">>)
  /\ Namespaced(modules[<<"a">>])
  /\ Table(modules[<<"a">>].rawModule, "getters") = <<Entry("total", "double")>>

C9_NamespacedGetter ==
  TotalModule =>
    /\ "a/total" \in DOMAIN getters
    /\ getterRead(World, "a/total") = 2 * state[<<"a">>]

\* right after a commit that left state.a.count = 5 the getter reads 10
C9_Witness ==
  /\ lastOp.op = "commit" /\ lastOp.type = "a/increment"
  /\ state[<<"a">>] = 5
  /\ "a/total" \in DOMAIN getters
  /\ getterRead(World, "a/total") = 10

(***************************************************************************)
(* C10.  hotUpdate leaves the composite state as it was, and for every     *)
(* module of the tree for which the new definition gives a handler of a    *)
(* mutation type the module already handles, the registry afterwards holds *)
(* for that module and type the new handler and no other.                  *)
(***************************************************************************)
\* the definition at `path` of an options object, if any
RECURSIVE DefsAt(_, _)
DefsAt(options, path) ==
  IF path = <<>> THEN <<options>>
  ELSE LET hit == SelectSeq(Table(options, "modules"), LAMBDA m : m.key = path[1])
       IN IF hit = <<>> THEN <<>> ELSE DefsAt(hit[1].def, Tail(path))

\* the namespace the options object gives to `path`
RECURSIVE DefNamespace(_, _, _)
DefNamespace(options, path, i) ==
  IF i > Len(path) THEN ""
  ELSE (IF DefsAt(options, SubSeq(path, 1, i))[1].namespaced THEN path[i] \o "/" ELSE "")
       \o DefNamespace(options, path, i + 1)

HandlersOf(entry, path) == SelectSeq(entry, LAMBDA h : h.local.path = path)

C10_HotReplaces ==
  [][lastOp'.op = "hotUpdate" =>
       /\ state' = state
       /\ \A p \in DOMAIN modules :
            LET defs == DefsAt(lastOp'.options, p)
                ns == getNamespace(modules, p)
            IN (defs # <<>> /\ "mutations" \in DOMAIN defs[1]
                  /\ DefNamespace(lastOp'.options, p, 1) = ns) =>
                 \A i \in DOMAIN defs[1].mutations :
                   LET type == ns \o defs[1].mutations[i].key
                   IN (type \in DOMAIN mutations /\ HandlersOf(mutations[type], p) # <<>>) =>
                        /\ type \in DOMAIN mutations'
                        /\ HandlersOf(mutations'[type], p) =
                             <<[body |-> defs[1].mutations[i].body,
                                local |-> makeLocalContext(ns, p)]>>
    ]_vars

(***************************************************************************)
(* C11.  hotUpdate with a definition that names a child module the tree    *)
(* does not hold leaves that module unregistered: afterwards the tree has  *)
(* no node at its path, the state has no slice for it, no registry holds a *)
(* handler or getter of it, and the warning naming its key was emitted.    *)
(***************************************************************************)
\* the children of the root that the definition names and the tree does not hold
NewChildren(options, tree) ==
  {<<m.key>> : m \in Range(Table(options, "modules"))} \ DOMAIN tree

\* no handler or getter bound to the module at `path` is in a registry of w
Unregistered(w, path) ==
  /\ \A type \in DOMAIN w.mutations : HandlersOf(w.mutations[type], path) = <<>>
  /\ \A type \in DOMAIN w.actions : HandlersOf(w.actions[type], path) = <<>>
  /\ \A type \in DOMAIN w.wrappedGetters : w.wrappedGetters[type].local.path # path
  /\ \A type \in DOMAIN w.getters : w.getters[type].local.path # path
  /\ \A ns \in DOMAIN w.modulesNamespaceMap : w.modulesNamespaceMap[ns] # path

C11_NewModuleIgnored ==
  [][lastOp'.op = "hotUpdate" =>
       \A p \in NewChildren(lastOp'.options, modules) :
         /\ p \notin DOMAIN modules'
         /\ p \notin DOMAIN state'
         /\ Unregistered(World', p)
         /\ \E i \in DOMAIN log' :
              /\ log'[i].ev = "warn: trying to add a new module on hot reloading"
              /\ log'[i].type = p[1]
    ]_vars

\* a hot update whose definition named the new module c has been done
C11_Witness ==
  /\ lastOp.op = "hotUpdate"
  /\ <<"c">> \in NewChildren(lastOp.options, modules)
  /\ <<"c">> \notin DOMAIN state
  /\ "c/increment" \notin DOMAIN mutations
  /\ \E i \in DOMAIN log : log[i].type = "c"

(***************************************************************************)
(* C12.  When the definition given to hotUpdate names, at one level, a     *)
(* child the tree does not hold and children it holds, every module of the *)
(* tree that the definition names has afterwards the namespaced flag and   *)
(* the actions, mutations and getters of the definition, whatever the      *)
(* order of the keys.                                                      *)
(***************************************************************************)
C12_OnlyBranchAborted ==
  [][(lastOp'.op = "hotUpdate" /\ NewChildren(lastOp'.options, modules) # {}) =>
       \A p \in DOMAIN modules :
         LET defs == DefsAt(lastOp'.options, p)
         IN defs # <<>> =>
              /\ p \in DOMAIN modules'
              /\ Namespaced(modules'[p]) = defs[1].namespaced
              /\ \A f \in {"actions", "mutations", "getters"} \cap DOMAIN defs[1] :
                   Table(modules'[p].rawModule, f) = defs[1][f]
    ]_vars

(***************************************************************************)
(* C13.  In the module tree: after register(path, def) under an existing   *)
(* parent, get(path) is the node made for def, and each nested module of   *)
(* def is at path + [key] with the same runtime flag; after unregister of  *)
(* a node whose runtime flag is true, get(path) finds nothing; unregister  *)
(* of a node whose runtime flag is false leaves the tree as it was.        *)
(***************************************************************************)
\* the node the Module constructor makes for def, with the children def names
NodeFor(def, runtime) ==
  [runtime |-> runtime,
   children |-> [i \in DOMAIN Table(def, "modules") |-> def.modules[i].key],
   rawModule |-> [f \in DOMAIN def \ {"modules"} |-> def[f]],
   state |-> def.state]

Registered(registry, type, path, namespace, body) ==
  /\ type \in DOMAIN registry
  /\ \E i \in DOMAIN registry[type] :
       registry[type][i] = [body |-> body, local |-> [namespace |-> namespace, path |-> path]]

C14_Namespaces ==
  \A p \in DOMAIN modules :
    LET ns == getNamespace(modules, p)
        raw == modules[p].rawModule
    IN /\ p = <<>> => ns = ""
       /\ p # <<>> =>
            ns = getNamespace(modules, Front(p))
                   \o (IF Namespaced(modules[p]) THEN Last(p) \o "/" ELSE "")
       /\ \A i \in DOMAIN Table(raw, "mutations") :
            Registered(mutations, ns \o raw.mutations[i].key, p, ns, raw.mutations[i].body)
       /\ \A i \in DOMAIN Table(raw, "actions") :
            Registered(actions,
                       IF raw.actions[i].root THEN raw.actions[i].key
                       ELSE ns \o raw.actions[i].key,
                       p, ns, raw.actions[i].body)
       /\ \A i \in DOMAIN Table(raw, "getters") :
            /\ (ns \o raw.getters[i].key) \in DOMAIN wrappedGetters
            /\ (ns \o raw.getters[i].key) \in DOMAIN getters

\* ModuleN is registered at c: its root action is under 'act', its module d has the
\* namespace 'c/d/'
C14_Witness ==
  /\ lastOp.op = "registerModule" /\ lastOp.path = <<"c">>
  /\ <<"c", "d">> \in DOMAIN modules
  /\ getNamespace(modules, <<"c", "d">>) = "c/d/"
  /\ Registered(actions, "act", <<"c">>, "c/", "pending")
  /\ Registered(actions, "c/go", <<"c">>, "c/", "commitSync")
  /\ Registered(mutations, "c/d/increment", <<"c", "d">>, "c/d/", "add")

(***************************************************************************)
(* C15.  The write-guard flag is true during the function passed to        *)
(* _withCommit and has again the value it had before when the function     *)
(* has returned: every mutation handler and every state write of the store *)
(* runs with the flag true; a commit issued from inside a mutation handler *)
(* leaves the flag true (its subscribers are notified with the flag still  *)
(* true) and the flag is back to its prior value when the outermost commit *)
(* notifies its subscribers; every operation ends with the flag it started *)
(* with, so the flag is false in every state between operations.           *)
(***************************************************************************)
StoreWriters == {"installModule", "replaceState", "unregisterModule", "resetStoreVM"}

C15_WriteGuard ==
  /\ []~committing
  /\ [][/\ committing' = committing
        /\ \A i \in DOMAIN log' :
             (log'[i].ev = "mutation" \/ (log'[i].ev = "write" /\ log'[i].fn \in StoreWriters))
               => log'[i].committing
        /\ (lastOp'.op = "commit" /\ ~lastOp'.threw) =>
             \A i \in DOMAIN log' :
               log'[i].ev = "subscribers" =>
                 log'[i].committing = (IF log'[i].type = lastOp'.type THEN committing ELSE TRUE)
       ]_vars

\* C15, the part that holds: the same with "an operation in which nothing throws
\* ends with the flag it started with" in place of the flag being false in every state
C15_WhenNothingThrows ==
  /\ (lastOp.op = "new Store" => ~committing)
  /\ [][/\ ~lastOp'.threw => committing' = committing
        /\ \A i \in DOMAIN log' :
             (log'[i].ev = "mutation" \/ (log'[i].ev = "write" /\ log'[i].fn \in StoreWriters))
               => log'[i].committing
        /\ (lastOp'.op = "commit" /\ ~lastOp'.threw) =>
             \A i \in DOMAIN log' :
               log'[i].ev = "subscribers" =>
                 log'[i].committing = (IF log'[i].type = lastOp'.type THEN committing ELSE TRUE)
       ]_vars

\* commit('c/nest') with a subscriber: notified of the inner commit with the flag true,
\* of the outer one with the flag false, and the flag is false afterwards
C15_Witness ==
  /\ lastOp.op = "commit" /\ lastOp.type = "c/nest" /\ ~lastOp.threw
  /\ ~committing
  /\ \E i, j \in DOMAIN log :
       /\ i < j
       /\ log[i].ev = "subscribers" /\ log[i].type = "increment" /\ log[i].committing
       /\ log[j].ev = "subscribers" /\ log[j].type = "c/nest" /\ ~log[j].committing

(***************************************************************************)
(* C16 as claimed.  In a strict store every write the store makes itself   *)
(* (mutation handlers, state grafting, replaceState, state removal, the    *)
(* reset of a hot update) happens with the flag true and is not reported,  *)
(* and every write made by an action, a subscriber or external code is     *)
(* reported, and lands.                                                    *)
(***************************************************************************)
StrictError == "error: do not mutate vuex store state outside mutation handlers"

IsWrite(e) == e.ev = "write" \/ e.ev = "mutation"

ByStore(e) == e.ev = "mutation" \/ (e.ev = "write" /\ e.fn \in StoreWriters)

\* the write logged at i was reported by the watcher
Reported(events, i) == (i + 1) \in DOMAIN events /\ events[i + 1].ev = StrictError

C16_OutsideWritesReported ==
  [][\A i \in DOMAIN log' :
       IsWrite(log'[i]) =>
         IF ByStore(log'[i]) THEN log'[i].committing /\ ~Reported(log', i)
         ELSE Reported(log', i)
    ]_vars

(***************************************************************************)
(* C16 as amended.  A write is reported exactly when the flag is false at  *)
(* the time of the write, and nothing else is reported; every write of the *)
(* store itself happens with the flag true; a write by an action, a        *)
(* subscriber or external code lands whether or not it is reported, and it *)
(* is not reported when the flag is true at that moment.                   *)
(***************************************************************************)
C16_ReportedIffUnguarded ==
  [][/\ \A i \in DOMAIN log' :
          /\ IsWrite(log'[i]) => (Reported(log', i) <=> ~log'[i].committing)
          /\ ByStore(log'[i]) => log'[i].committing
          /\ log'[i].ev = StrictError => (i > 1 /\ IsWrite(log'[i - 1]))
          /\ (log'[i].ev = "write" /\ ~ByStore(log'[i])) =>
               /\ log'[i].path \in DOMAIN log'[i].state
               /\ log'[i].state[log'[i].path] \in {0, 1}
     /\ lastOp'.op = "write" =>
          /\ state'[<<>>] = (IF state[<<>>] = 0 THEN 1 ELSE 0)
          /\ Len(log') = (IF committing THEN 1 ELSE 2)
    ]_vars

\* commit('c/nest') with the subscriber `writer`: its write during the notification of
\* the inner commit is made with the flag true and is not reported, its write during
\* the notification of the outer commit is reported
C16_Witness ==
  /\ lastOp.op = "commit" /\ lastOp.type = "c/nest"
  /\ \E i, j \in DOMAIN log :
       /\ i < j
       /\ log[i].ev = "write" /\ log[i].fn = "writer"
       /\ log[i].committing /\ ~Reported(log, i)
       /\ log[j].ev = "write" /\ log[j].fn = "writer"
       /\ ~log[j].committing /\ Reported(log, j)

(***************************************************************************)
(* C17.  When k modules of the tree define the same qualified type, the    *)
(* mutation (action) registry holds exactly k handlers for it, those of    *)
(* the k modules in installation order (a parent before its children, the  *)
(* children in the order of their keys), and one commit (dispatch) runs    *)
(* all k; the getter registry holds for a qualified type the definition of *)
(* the first module in installation order that defines it, a registration  *)
(* of a module whose getter key is taken emits the diagnostic, and         *)
(* getters[type] is that first definition.                                 *)
(***************************************************************************)
RECURSIVE InstallOrder(_, _)
RECURSIVE InstallOrderOf(_, _, _)

\* the paths of the tree under `path`, a parent before its children
InstallOrder(tree, path) == <<path>> \o InstallOrderOf(tree, path, 1)

InstallOrderOf(tree, path, i) ==
  IF i > Len(tree[path].children) THEN <<>>
  ELSE InstallOrder(tree, Append(path, tree[path].children[i]))
       \o InstallOrderOf(tree, path, i + 1)

QualifiedType(field, ns, e) == IF field = "actions" /\ e.root THEN e.key ELSE ns \o e.key

\* the handlers that the modules of the tree define for `type`, in the order `order`
RECURSIVE HandlersDefined(_, _, _, _, _)
HandlersDefined(tree, field, type, order, k) ==
  IF k > Len(order) THEN <<>>
  ELSE LET ns == getNamespace(tree, order[k])
           hits == SelectSeq(Table(tree[order[k]].rawModule, field),
                             LAMBDA e : QualifiedType(field, ns, e) = type)
       IN [i \in DOMAIN hits |->
             [body |-> hits[i].body, local |-> [namespace |-> ns, path |-> order[k]]]]
          \o HandlersDefined(tree, field, type, order, k + 1)

TypesDefined(tree, field) ==
  UNION {{QualifiedType(field, getNamespace(tree, p), e) :
            e \in Range(Table(tree[p].rawModule, field))} : p \in DOMAIN tree}

EntryOf(registry, type) == IF type \in DOMAIN registry THEN registry[type] ELSE <<>>

C17_SharedTypes ==
  /\ [](/\ \A type \in DOMAIN mutations \cup TypesDefined(modules, "mutations") :
             EntryOf(mutations, type)
               = HandlersDefined(modules, "mutations", type, InstallOrder(modules, <<>>), 1)
        /\ \A type \in DOMAIN actions \cup TypesDefined(modules, "actions") :
             EntryOf(actions, type)
               = HandlersDefined(modules, "actions", type, InstallOrder(modules, <<>>), 1)
        /\ \A type \in DOMAIN wrappedGetters \cup TypesDefined(modules, "getters") :
             /\ type \in DOMAIN wrappedGetters /\ type \in DOMAIN getters
             /\ wrappedGetters[type]
                  = HandlersDefined(modules, "getters", type, InstallOrder(modules, <<>>), 1)[1]
             /\ getters[type] = wrappedGetters[type])
  /\ [][/\ (lastOp'.op = "commit" /\ ~lastOp'.threw /\ lastOp'.type \in DOMAIN mutations) =>
             SelectSeq([i \in DOMAIN log' |-> IF log'[i].ev = "mutation" /\ log'[i].type = lastOp'.type
                                               THEN <<log'[i].path>> ELSE <<>>],
                       LAMBDA x : x # <<>>)
               = [i \in DOMAIN mutations[lastOp'.type] |-> <<mutations[lastOp'.type][i].local.path>>]
        /\ (lastOp'.op = "dispatch" /\ ~lastOp'.threw /\ lastOp'.type \in DOMAIN actions) =>
             SelectSeq([i \in DOMAIN log' |-> IF log'[i].ev = "action" /\ log'[i].type = lastOp'.type
                                               THEN <<log'[i].path>> ELSE <<>>],
                       LAMBDA x : x # <<>>)
               = [i \in DOMAIN actions[lastOp'.type] |-> <<actions[lastOp'.type][i].local.path>>]
        /\ lastOp'.op = "registerModule" =>
             \A i \in DOMAIN Table(lastOp'.options, "getters") :
               LET type == getNamespace(modules', lastOp'.path) \o lastOp'.options.getters[i].key
               IN type \in DOMAIN wrappedGetters =>
                    \E j \in DOMAIN log' :
                      log'[j].ev = "error: duplicate getter key" /\ log'[j].type = type
       ]_vars

(***************************************************************************)
(* C18.  For a module with a non-empty namespace ns, what a local          *)
(* commit(type) or dispatch(type) does is what the store's commit or       *)
(* dispatch of ns + type does, and with root: true what that of the bare   *)
(* type does; when ns + type has no handler the local call only emits a    *)
(* diagnostic: nothing is thrown, no handler runs, no subscriber is        *)
(* notified and the store is unchanged.  For a module with an empty        *)
(* namespace the local call is the store's commit or dispatch of the type. *)
(***************************************************************************)
\* what the operation logged after the first action handler was entered
AfterAction(events) ==
  LET k == CHOOSE i \in DOMAIN events :
             events[i].ev = "action" /\ \A j \in 1..(i - 1) : events[j].ev # "action"
  IN SubSeq(events, k + 1, Len(events))

C18_LocalContext ==
  [][(/\ lastOp'.op = "dispatch"
      /\ lastOp'.type \in DOMAIN actions
      /\ Len(actions[lastOp'.type]) = 1
      /\ actions[lastOp'.type][1].body \notin {"pending", "write"}) =>
       LET h == actions[lastOp'.type][1]
           call == ActionCall(h.body)
           ns == h.local.namespace
           qualified == IF ns = "" \/ call.root THEN call.type ELSE ns \o call.type
           registry == IF call.op = "commit" THEN mutations ELSE actions
           direct == IF call.op = "commit" THEN commit(World, qualified, lastOp'.payload)
                     ELSE dispatch(World, qualified, lastOp'.payload)
           done == AfterAction(log')
       IN /\ ~lastOp'.threw
          /\ IF ns # "" /\ ~call.root /\ qualified \notin DOMAIN registry
             THEN /\ Len(done) = 1
                  /\ done[1].ev = (IF call.op = "commit"
                                   THEN "error: unknown local mutation type"
                                   ELSE "error: unknown local action type")
                  /\ done[1].type = qualified
                  /\ UNCHANGED storeVars
             ELSE /\ done = direct.log
                  /\ state' = direct.state
                  /\ UNCHANGED <<mutations, actions, subscribers, actionSubscribers>>
    ]_vars

\* the action of the namespaced module c has called context.commit('missing'): after
\* the handler was entered there is only the diagnostic naming 'c/missing'
C18_Witness ==
  /\ lastOp.op = "dispatch" /\ lastOp.type = "c/commitMissing" /\ ~lastOp.threw
  /\ subscribers = <<"f">>
  /\ \E i \in DOMAIN log : log[i].ev = "action"
  /\ AfterAction(log) # <<>>
  /\ AfterAction(log)[1].ev = "error: unknown local mutation type"
  /\ AfterAction(log)[1].type = "c/missing"
  /\ Len(AfterAction(log)) = 1

(***************************************************************************)
(* C19.  Round trip of dynamic registration: for a path that holds no      *)
(* module and whose parent exists, registerModule(path, def) followed by   *)
(* unregisterModule(path) gives back the module tree and the state (the    *)
(* slice at path is grafted by the first and removed by the second, every  *)
(* other slice keeps the value it has now) and, for every qualified type,  *)
(* the number of mutation, action and getter handlers registered before.   *)
(***************************************************************************)
HandlerCount(registry, type) == Len(EntryOf(registry, type))

RoundTrip(w, path, def) ==
  LET w1 == registerModule(w, path, def, FALSE)
      w2 == unregisterModule(w1, path)
  IN /\ ~w1.thrown /\ ~w2.thrown
     /\ path \in DOMAIN w1.modules /\ path \in DOMAIN w1.state
     /\ \A q \in DOMAIN w.state : q \in DOMAIN w1.state /\ w1.state[q] = w.state[q]
     /\ w2.modules = w.modules
     /\ w2.state = w.state
     /\ \A type \in DOMAIN w.mutations \cup DOMAIN w2.mutations :
          HandlerCount(w2.mutations, type) = HandlerCount(w.mutations, type)
     /\ \A type \in DOMAIN w.actions \cup DOMAIN w2.actions :
          HandlerCount(w2.actions, type) = HandlerCount(w.actions, type)
     /\ DOMAIN w2.wrappedGetters = DOMAIN w.wrappedGetters
     /\ DOMAIN w2.getters = DOMAIN w.getters

C19_RoundTrip ==
  \A path \in DynamicPaths, def \in DynamicModules :
    (~HasModule(modules, path) /\ HasModule(modules, Front(path))) =>
      RoundTrip(World, path, def)

\* C19 on the stores whose registries hold the handlers of the modules of the tree
\* and no other: the round trip holds there
C19_RoundTripOfConsistent ==
  (/\ \A type \in DOMAIN mutations :
        EntryOf(mutations, type)
          = HandlersDefined(modules, "mutations", type, InstallOrder(modules, <<>>), 1)
   /\ \A type \in DOMAIN actions :
        EntryOf(actions, type)
          = HandlersDefined(modules, "actions", type, InstallOrder(modules, <<>>), 1))
  => \A path \in DynamicPaths, def \in DynamicModules :
       (~HasModule(modules, path) /\ HasModule(modules, Front(path))) =>
         RoundTrip(World, path, def)

(***************************************************************************)
(* C20.  Every subscriber that is in the mutation subscriber list when a   *)
(* commit starts notifying, and that has not been unsubscribed before its  *)
(* turn, is notified exactly once for that commit, also when a subscriber  *)
(* calls its unsubscribe closure during the notification; the same for the *)
(* action subscribers of a dispatch.  (The only subscriber that changes a  *)
(* list here is `once`, which removes itself after it has been notified,   *)
(* so no subscriber is unsubscribed before its turn.)                      *)
(***************************************************************************)
TimesNotified(events, kind, fn) ==
  Cardinality({i \in DOMAIN events : events[i].ev = kind /\ events[i].fn = fn})

C20_AllNotifiedOnce ==
  [][/\ (lastOp'.op = "commit" /\ lastOp'.type \in DOMAIN mutations /\ ~lastOp'.threw) =>
          \A fn \in Range(subscribers) : TimesNotified(log', "subscribers", fn) = 1
     /\ (lastOp'.op = "dispatch" /\ lastOp'.type \in DOMAIN actions /\ ~lastOp'.threw) =>
          \A fn \in Range(actionSubscribers) :
            TimesNotified(log', "actionSubscribers", fn) = 1
    ]_vars

(***************************************************************************)
(* C21.  When a mutation handler raises during a commit, the write-guard   *)
(* flag is restored to the value it had before the commit (false for a     *)
(* commit from outside), so a write to the state made afterwards by code   *)
(* outside the store is still reported by the strict-mode watcher.         *)
(***************************************************************************)
C21_FlagRestoredOnThrow ==
  [][/\ (lastOp'.op = "commit" /\ lastOp'.threw) => committing' = committing
     /\ lastOp'.op = "write" =>
          \E i \in DOMAIN log' :
            /\ log'[i].ev = "write" /\ log'[i].fn = "external"
            /\ Reported(log', i)
    ]_vars

(***************************************************************************)
(* C22.  After any sequence of registerModule and unregisterModule calls   *)
(* (registerModule on a path that already holds a module included) the     *)
(* mutation and action registries hold exactly the handlers of the modules *)
(* of the tree, one per module and handler key it defines, whatever their  *)
(* order: no handler of a replaced or removed module remains; and every    *)
(* getter key is bound to a definition of a module of the tree.            *)
(***************************************************************************)
\* the handlers of `registry` are those the modules of `tree` define, in some order
SameHandlers(registry, tree, field) ==
  \A type \in DOMAIN registry \cup TypesDefined(tree, field) :
    LET defined == HandlersDefined(tree, field, type, InstallOrder(tree, <<>>), 1)
    IN /\ Len(EntryOf(registry, type)) = Len(defined)
       /\ \A p \in DOMAIN tree :
            HandlersOf(EntryOf(registry, type), p) = HandlersOf(defined, p)

C22_RegistriesMatchTree ==
  /\ SameHandlers(mutations, modules, "mutations")
  /\ SameHandlers(actions, modules, "actions")
  /\ \A type \in DOMAIN wrappedGetters :
       wrappedGetters[type]
         \in Range(HandlersDefined(modules, "getters", type, InstallOrder(modules, <<>>), 1))

(***************************************************************************)
(* C23.  After any sequence of commit, registerModule (without             *)
(* preserveState), unregisterModule and hotUpdate calls every module of    *)
(* the tree at a non-empty path has a state slice at that path, so every   *)
(* registered mutation handler receives a defined local state and no       *)
(* commit of a registered type throws; this includes the store after       *)
(* unregisterModule on a module installed at construction time.            *)
(***************************************************************************)
C23_StateForEveryModule ==
  /\ [](\A p \in DOMAIN modules : p \in DOMAIN state)
  /\ [][(lastOp'.op = "commit" /\ lastOp'.type \in DOMAIN mutations) => ~lastOp'.threw]_vars

(***************************************************************************)
(* C24.  A module installed at construction time cannot be unregistered:   *)
(* for every path that holds a module when the store is constructed, after *)
(* any sequence of registerModule, unregisterModule and hotUpdate calls    *)
(* the tree still holds a module at that path, and every mutation, action  *)
(* and getter key that module defines is registered for it.                *)
(***************************************************************************)
\* every key the module at `path` defines in `field` has a handler of that module
KeysRegistered(registry, tree, field, path) ==
  \A e \in Range(Table(tree[path].rawModule, field)) :
    HandlersOf(EntryOf(registry, QualifiedType(field, getNamespace(tree, path), e)), path)
      # <<>>

C24_StaticModulesStay ==
  \A path \in DOMAIN NewModuleCollection(RootOptions) :
    /\ HasModule(modules, path)
    /\ KeysRegistered(mutations, modules, "mutations", path)
    /\ KeysRegistered(actions, modules, "actions", path)
    /\ \A e \in Range(Table(modules[path].rawModule, "getters")) :
         (getNamespace(modules, path) \o e.key) \in DOMAIN wrappedGetters

====
